---- MODULE Spec2Model ----
(***************************************************************************)
(* Model of src/src/bugfix_5.py: the class ClaudeAutomationBugfix, its     *)
(* three public operations and the driver main, as a call-stack machine    *)
(* with one action per statement group of each operation.                  *)
(*                                                                         *)
(* A client constructs instances and calls the public operations on them,  *)
(* or runs main.  Every call the code makes that can raise takes a fault   *)
(* input: NoExc (the call succeeds) or an exception.  A step is            *)
(* replaceable code and may raise with any text; datetime.now, the logging *)
(* calls, the prerequisite checks and json.dumps raise with the library's  *)
(* message.  The exceptions are instances of Exception, the class every    *)
(* except clause of the code names; print() is taken to succeed.  The wall *)
(* clock is not monotonic: each reading is any value of Clock.             *)
(***************************************************************************)
EXTENDS Integers, Sequences, FiniteSets, TLC

VARIABLES
    objs,      \* the instances constructed so far, in order of construction
    handlers,  \* the logging module's registry: logger name -> handler count
    stack,     \* the call stack: frames [op, pc], the running one last
    self,      \* the instance the running client operation acts on
    loc,       \* the local variables of the frames on the stack
    exc,       \* the exception caught or propagating, or NoExc
    ret,       \* the value the last returned call returned
    done,      \* the call that ended last, and how
    emitted,   \* copies of the line the last logging call of the operation wrote
    stdout,    \* what main has printed
    events,    \* history: the pipeline events of the client operation
    faults,    \* history: the faults injected into the client operation
    first,     \* history: each instance's first fault-free report, timing masked
    runs,      \* history: each instance's fault-free report runs so far
    calls      \* the client operations started so far

vars == <<objs, handlers, stack, self, loc, exc, ret, done, emitted, stdout,
          events, faults, first, runs, calls>>

\* ------------------------------------------------------------------ bounds
MaxClock == 1
MaxCalls == 2

\* ------------------------------------------------------- values and inputs
None == [kind |-> "None"]

NoExc == [kind |-> "NoExc"]

Exc(t) == [kind |-> "Exception", text |-> t]

\* a step is caller-supplied code: what it raises may carry any text, the
\* empty one included (str(Exception()) is '')
ExcTexts == {"", "boom"}

StepFault == {NoExc} \cup {Exc(t) : t \in ExcTexts}

\* a library call (datetime.now, a logging call, a check's attribute access,
\* json.dumps) raises with the library's message
LibFault(text) == {NoExc, Exc(text)}

ClockFault == LibFault("clock")

LogFault == LibFault("logging")

CheckFault == LibFault("check")

DumpsFault == LibFault("not JSON serializable")

Clock == 0..MaxClock

\* issue_number as the caller passes it: its type and its printed form
IntIssue(s) == [type |-> "int", text |-> s]

StrIssue(s) == [type |-> "str", text |-> s]

Issues == {IntIssue("5"), StrIssue("5")}

IsoFormat(t) == [isoformat |-> t]

LoggerName(issue_number) == "claude_automation_issue_" \o issue_number.text

LoggerNames == {LoggerName(i) : i \in Issues}

VersionInfo == <<3, 11>>

VersionAtLeast(v, w) == v[1] > w[1] \/ (v[1] = w[1] /\ v[2] >= w[2])

EmptyMap == [x \in {} |-> None]

StepKey(i) == <<"step_1", "step_2", "step_3", "step_4">>[i]

AutomationSteps == 4

detect_implementation_type ==
    [status |-> "completed", type |-> "bugfix", confidence |-> "100%",
     method |-> "keyword_analysis"]

generate_code_solution ==
    [status |-> "completed", solution |-> "enhanced_error_handling",
     quality |-> "production_ready", test_coverage |-> "95%"]

validate_security_checks ==
    [status |-> "completed", security_score |-> "100%",
     vulnerabilities |-> "none_detected", compliance |-> "full"]

prepare_review_data ==
    [status |-> "completed", review_ready |-> TRUE,
     documentation |-> "comprehensive", test_status |-> "passing"]

StepOutput(i) ==
    CASE i = 1 -> detect_implementation_type
      [] i = 2 -> generate_code_solution
      [] i = 3 -> validate_security_checks
      [] i = 4 -> prepare_review_data

Dumps(obj) == [format |-> "json", indent |-> 2, doc |-> obj]

\* --------------------------------------------------------- frame helpers
InitLoc ==
    [checks |-> None, start_time |-> None, end_time |-> None, i |-> 0,
     results |-> EmptyMap, final_result |-> None, prerequisites |-> None,
     implementation |-> None, report |-> None]

Frame(op, pc) == [op |-> op, pc |-> pc]

Top == stack[Len(stack)]

At(op, pc) == stack # <<>> /\ Top.op = op /\ Top.pc = pc

Goto(pc) == [stack EXCEPT ![Len(stack)].pc = pc]

Popped == SubSeq(stack, 1, Len(stack) - 1)

Me == objs[self]

Logged(site, f) ==
    IF f = NoExc THEN faults
    ELSE Append(faults, [site |-> site, text |-> f.text])

Idle == stack = <<>>

NoDone == [op |-> "none", how |-> "none", depth |-> 0]

VALIDATE == "validate_automation_prerequisites"

IMPLEMENT == "implement_enhanced_automation"

GENERATE == "generate_automation_report"

MAIN == "main"

\* the frame of op is popped: its local variables are gone
Dropped(op) ==
    CASE op = VALIDATE -> [loc EXCEPT !.checks = None]
      [] op = IMPLEMENT ->
           [loc EXCEPT !.start_time = None, !.end_time = None, !.i = 0,
                       !.results = EmptyMap, !.final_result = None]
      [] op = GENERATE ->
           [loc EXCEPT !.prerequisites = None, !.implementation = None,
                       !.report = None]
      [] op = MAIN -> loc

\* a value is returned to the caller (or to the client)
Return(op, v) ==
    /\ stack' = Popped
    /\ loc' = Dropped(op)
    /\ ret' = v
    /\ exc' = NoExc
    /\ done' = [op |-> op, how |-> "return", depth |-> Len(stack)]

\* an exception leaves the operation
Raise(op, e) ==
    /\ stack' = Popped
    /\ loc' = Dropped(op)
    /\ ret' = None
    /\ exc' = e
    /\ done' = [op |-> op, how |-> "raise", depth |-> Len(stack)]

\* the handler of the running frame is entered with e
Catch(e, pc) ==
    /\ stack' = Goto(pc)
    /\ exc' = e
    /\ UNCHANGED <<loc, ret, done, emitted>>

\* a log call on self.logger: every handler of the logger writes the line
Emit == handlers[Me.logger.name]

Init ==
    /\ objs = <<>>
    /\ handlers = [n \in LoggerNames |-> 0]
    /\ stack = <<>>
    /\ self = 0
    /\ loc = InitLoc
    /\ exc = NoExc
    /\ ret = None
    /\ done = NoDone
    /\ events = <<>>
    /\ faults = <<>>
    /\ emitted = 0
    /\ stdout = <<>>
    /\ first = [n \in 1..MaxCalls |-> None]
    /\ runs = [n \in 1..MaxCalls |-> 0]
    /\ calls = 0

\* the running frame goes on at pc with its locals as l
Continue(pc, l) ==
    /\ stack' = Goto(pc)
    /\ loc' = l
    /\ UNCHANGED <<exc, ret, done>>

\* --------------------------------------------- __init__ and _setup_logging
\* logging.getLogger(name) hands out the one logger registered under the
\* name; addHandler appends to that logger's handler list
setup_logging(name) == [handlers EXCEPT ![name] = @ + 1]

NewObj(issue_number, t) ==
    [issue_number |-> issue_number, timestamp |-> IsoFormat(t),
     logger |-> [name |-> LoggerName(issue_number)]]

\* a client constructs ClaudeAutomationBugfix(issue_number)
New(issue_number) ==
    /\ Idle /\ calls < MaxCalls
    /\ calls' = calls + 1
    /\ \E f \in ClockFault, t \in Clock :
         IF f = NoExc
         THEN /\ objs' = Append(objs, NewObj(issue_number, t))
              /\ handlers' = setup_logging(LoggerName(issue_number))
              /\ self' = Len(objs) + 1
              /\ exc' = NoExc
              /\ faults' = <<>>
              /\ done' = [op |-> "__init__", how |-> "return", depth |-> 1]
         ELSE /\ UNCHANGED <<objs, handlers>>
              /\ self' = 0
              /\ exc' = f
              /\ faults' = <<[site |-> "init", text |-> f.text]>>
              /\ done' = [op |-> "__init__", how |-> "raise", depth |-> 1]
    /\ ret' = None
    /\ loc' = InitLoc
    /\ events' = <<>>
    /\ stdout' = <<>>
    /\ emitted' = 0
    /\ UNCHANGED <<stack, first, runs>>

PublicOps == {VALIDATE, IMPLEMENT, GENERATE}

Entry(op) ==
    CASE op = VALIDATE -> "v_checks"
      [] op = IMPLEMENT -> "i_start"
      [] op = GENERATE -> "g_validate"

\* a client calls a public operation on an instance it holds
Call(op, n) ==
    /\ Idle /\ calls < MaxCalls /\ n \in 1..Len(objs)
    /\ calls' = calls + 1
    /\ stack' = <<Frame(op, Entry(op))>>
    /\ self' = n
    /\ loc' = InitLoc
    /\ exc' = NoExc
    /\ ret' = None
    /\ done' = NoDone
    /\ events' = <<>>
    /\ faults' = <<>>
    /\ stdout' = <<>>
    /\ emitted' = 0
    /\ UNCHANGED <<objs, handlers, first, runs>>

\* ------------------------------------- validate_automation_prerequisites
Checks ==
    [python_version |-> VersionAtLeast(VersionInfo, <<3, 8>>),
     logging_configured |-> Me.logger # None,
     timestamp_valid |-> Me.timestamp # None,
     issue_number_valid |-> Me.issue_number.type = "int"]

ValidationError(e) == [error |-> TRUE, message |-> e.text]

\* the four checks are evaluated
V_Checks ==
    /\ At(VALIDATE, "v_checks")
    /\ \E f \in CheckFault :
         /\ faults' = Logged("validate.try", f)
         /\ IF f = NoExc
            THEN /\ Continue("v_info", [loc EXCEPT !.checks = Checks])
                 /\ emitted' = emitted
            ELSE Catch(f, "v_except")
    /\ UNCHANGED <<objs, handlers, self, stdout, events, first, runs, calls>>

\* logger.info(...) and return checks
V_Info ==
    /\ At(VALIDATE, "v_info")
    /\ \E f \in LogFault :
         /\ faults' = Logged("validate.try", f)
         /\ IF f = NoExc
            THEN /\ emitted' = Emit
                 /\ Return(VALIDATE, loc.checks)
            ELSE Catch(f, "v_except")
    /\ UNCHANGED <<objs, handlers, self, stdout, events, first, runs, calls>>

\* except Exception as e: logger.error(...) and return the error mapping
V_Except ==
    /\ At(VALIDATE, "v_except")
    /\ \E f \in LogFault :
         /\ faults' = Logged("validate.except", f)
         /\ IF f = NoExc
            THEN /\ emitted' = Emit
                 /\ Return(VALIDATE, ValidationError(exc))
            ELSE /\ emitted' = emitted
                 /\ Raise(VALIDATE, f)
    /\ UNCHANGED <<objs, handlers, self, stdout, events, first, runs, calls>>

\* ----------------------------------------- implement_enhanced_automation
\* (end_time - start_time).total_seconds()
TotalSeconds(end_time, start_time) == end_time - start_time

\* mutant: steps_completed taken from the loop counter, which has moved on
FinalResultCounter(execution_time) ==
    [status |-> "success",
     issue_number |-> Me.issue_number,
     execution_time_seconds |-> execution_time,
     timestamp |-> Me.timestamp,
     steps_completed |-> loc.i,
     results |-> loc.results]

FinalResult(execution_time) ==
    [status |-> "success",
     issue_number |-> Me.issue_number,
     execution_time_seconds |-> execution_time,
     timestamp |-> Me.timestamp,
     steps_completed |-> AutomationSteps,
     results |-> loc.results]

\* mutant: a fixed message in place of str(e)
ImplementationErrorFixed(e) ==
    [status |-> "error",
     issue_number |-> Me.issue_number,
     error_message |-> "Enhanced automation failed",
     timestamp |-> Me.timestamp]

ImplementationError(e) ==
    [status |-> "error",
     issue_number |-> Me.issue_number,
     error_message |-> e.text,
     timestamp |-> Me.timestamp]

\* start_time = datetime.now(), before the try block
I_Start ==
    /\ At(IMPLEMENT, "i_start")
    /\ \E f \in ClockFault, t \in Clock :
         /\ faults' = Logged("implement.start", f)
         /\ IF f = NoExc
            THEN Continue("i_info", [loc EXCEPT !.start_time = t])
            ELSE Raise(IMPLEMENT, f)
    /\ UNCHANGED <<objs, handlers, self, emitted, stdout, events, first, runs, calls>>

\* logger.info("Starting ..."), results = {}, the loop starts at i = 1
I_Info ==
    /\ At(IMPLEMENT, "i_info")
    /\ \E f \in LogFault :
         /\ faults' = Logged("implement.try", f)
         /\ IF f = NoExc
            THEN /\ emitted' = Emit
                 /\ Continue("i_step",
                             [loc EXCEPT !.results = EmptyMap, !.i = 1])
            ELSE Catch(f, "i_except")
    /\ UNCHANGED <<objs, handlers, self, stdout, events, first, runs, calls>>

\* mutant: the loop stops one step short
NextPcShort(i) == IF i < AutomationSteps - 1 THEN "i_step" ELSE "i_end"

\* the loop goes on while a step is left
NextPc(i) == IF i < AutomationSteps THEN "i_step" ELSE "i_end"

\* step_result = step(); results[f'step_{i}'] = step_result
I_Step ==
    /\ At(IMPLEMENT, "i_step")
    /\ events' = Append(events, StepKey(loc.i))
    /\ \E f \in StepFault :
         /\ faults' = Logged(StepKey(loc.i), f)
         /\ IF f = NoExc
            THEN /\ emitted' = emitted
                 /\ Continue("i_step_info",
                       [loc EXCEPT !.results =
                           (StepKey(loc.i) :> StepOutput(loc.i)) @@ @])
            ELSE Catch(f, "i_except")
    /\ UNCHANGED <<objs, handlers, self, stdout, first, runs, calls>>

\* logger.info(f"Step {i} completed ..."), then the next iteration
I_StepInfo ==
    /\ At(IMPLEMENT, "i_step_info")
    /\ \E f \in LogFault :
         /\ faults' = Logged("implement.try", f)
         /\ IF f = NoExc
            THEN /\ emitted' = Emit
                 /\ Continue(NextPc(loc.i), [loc EXCEPT !.i = @ + 1])
            ELSE Catch(f, "i_except")
    /\ UNCHANGED <<objs, handlers, self, stdout, events, first, runs, calls>>

\* end_time = datetime.now(), execution_time and final_result
I_End ==
    /\ At(IMPLEMENT, "i_end")
    /\ \E f \in ClockFault, t \in Clock :
         /\ faults' = Logged("implement.try", f)
         /\ IF f = NoExc
            THEN /\ emitted' = emitted
                 /\ Continue("i_done",
                       [loc EXCEPT
                          !.end_time = t,
                          !.final_result =
                             FinalResult(TotalSeconds(t, loc.start_time))])
            ELSE Catch(f, "i_except")
    /\ UNCHANGED <<objs, handlers, self, stdout, events, first, runs, calls>>

\* logger.info("... completed in ...") and return final_result
I_Done ==
    /\ At(IMPLEMENT, "i_done")
    /\ \E f \in LogFault :
         /\ faults' = Logged("implement.try", f)
         /\ IF f = NoExc
            THEN /\ emitted' = Emit
                 /\ Return(IMPLEMENT, loc.final_result)
            ELSE Catch(f, "i_except")
    /\ UNCHANGED <<objs, handlers, self, stdout, events, first, runs, calls>>

\* except Exception as e: logger.error(...) and return the error mapping
I_Except ==
    /\ At(IMPLEMENT, "i_except")
    /\ \E f \in LogFault :
         /\ faults' = Logged("implement.except", f)
         /\ IF f = NoExc
            THEN /\ emitted' = Emit
                 /\ Return(IMPLEMENT, ImplementationError(exc))
            ELSE /\ emitted' = emitted
                 /\ Raise(IMPLEMENT, f)
    /\ UNCHANGED <<objs, handlers, self, stdout, events, first, runs, calls>>

\* -------------------------------------------- generate_automation_report
\* mutant: the report without its expected_performance entry
ReportShort(prerequisites, implementation) ==
    [claude_automation_report |->
        [issue_number |-> Me.issue_number,
         report_timestamp |-> Me.timestamp,
         prerequisites |-> prerequisites,
         implementation |-> implementation,
         automation_type |-> "enhanced_instant_review"]]

\* mutant: the implementation is reported only when every check passed
ReportGated(prerequisites, implementation) ==
    [claude_automation_report |->
        [issue_number |-> Me.issue_number,
         report_timestamp |-> Me.timestamp,
         prerequisites |-> prerequisites,
         implementation |->
            IF /\ "error" \notin DOMAIN prerequisites
               /\ \A k \in DOMAIN prerequisites : prerequisites[k]
            THEN implementation
            ELSE [status |-> "skipped"],
         automation_type |-> "enhanced_instant_review",
         expected_performance |->
            [resolution_time |-> "<3_minutes",
             automation_level |-> "100%",
             quality_assurance |-> "claude_reviewed"]]]

Report(prerequisites, implementation) ==
    [claude_automation_report |->
        [issue_number |-> Me.issue_number,
         report_timestamp |-> Me.timestamp,
         prerequisites |-> prerequisites,
         implementation |-> implementation,
         automation_type |-> "enhanced_instant_review",
         expected_performance |->
            [resolution_time |-> "<3_minutes",
             automation_level |-> "100%",
             quality_assurance |-> "claude_reviewed"]]]

ReportError(e) == [error |-> e.text]

\* a report text with its timestamp and timing fields masked
StripTiming(text) ==
    [text EXCEPT
       !.doc.claude_automation_report.report_timestamp = "*",
       !.doc.claude_automation_report.implementation.timestamp = "*",
       !.doc.claude_automation_report.implementation.execution_time_seconds
          = "*"]

\* the running frame calls op and will go on at pc after
Push(after, op) == Append(Goto(after), Frame(op, Entry(op)))

\* prerequisites = self.validate_automation_prerequisites(): the call
G_Validate ==
    /\ At(GENERATE, "g_validate")
    /\ stack' = Push("g_implement", VALIDATE)
    /\ events' = Append(events, "prerequisites-check")
    /\ UNCHANGED <<objs, handlers, self, loc, exc, ret, done, emitted, stdout,
                   faults, first, runs, calls>>

\* the call returned: bind prerequisites, then
\* implementation = self.implement_enhanced_automation(): the call
G_Implement ==
    /\ At(GENERATE, "g_implement")
    /\ IF exc # NoExc
       THEN /\ stack' = Goto("g_except")
            /\ loc' = loc
       ELSE /\ stack' = Push("g_assemble", IMPLEMENT)
            /\ loc' = [loc EXCEPT !.prerequisites = ret]
    /\ UNCHANGED <<objs, handlers, self, exc, ret, done, emitted, stdout,
                   events, faults, first, runs, calls>>

\* the call returned: bind implementation, then report = {...}
G_Assemble ==
    /\ At(GENERATE, "g_assemble")
    /\ IF exc # NoExc
       THEN /\ stack' = Goto("g_except")
            /\ UNCHANGED <<loc, events>>
       ELSE /\ stack' = Goto("g_dumps")
            /\ loc' = [loc EXCEPT !.implementation = ret,
                                  !.report = Report(loc.prerequisites, ret)]
            /\ events' = Append(events, "assemble")
    /\ UNCHANGED <<objs, handlers, self, exc, ret, done, emitted, stdout,
                   faults, first, runs, calls>>

\* mutant: returning the report clears the instance's timestamp
G_DumpsConsuming ==
    /\ At(GENERATE, "g_dumps")
    /\ events' = Append(events, "serialize")
    /\ \E f \in DumpsFault :
         /\ faults' = Logged("generate.try", f)
         /\ IF f = NoExc
            THEN /\ Return(GENERATE, Dumps(loc.report))
                 /\ emitted' = emitted
                 /\ objs' = [objs EXCEPT ![self].timestamp = None]
                 /\ first' = IF faults = <<>> /\ first[self] = None
                             THEN [first EXCEPT
                                     ![self] = StripTiming(Dumps(loc.report))]
                             ELSE first
                 /\ runs' = IF faults = <<>>
                            THEN [runs EXCEPT ![self] = @ + 1] ELSE runs
            ELSE /\ Catch(f, "g_except")
                 /\ UNCHANGED <<objs, first, runs>>
    /\ UNCHANGED <<handlers, self, stdout, calls>>

\* return json.dumps(report, indent=2)
G_Dumps ==
    /\ At(GENERATE, "g_dumps")
    /\ events' = Append(events, "serialize")
    /\ \E f \in DumpsFault :
         /\ faults' = Logged("generate.try", f)
         /\ IF f = NoExc
            THEN /\ Return(GENERATE, Dumps(loc.report))
                 /\ emitted' = emitted
                 /\ first' = IF faults = <<>> /\ first[self] = None
                             THEN [first EXCEPT
                                     ![self] = StripTiming(Dumps(loc.report))]
                             ELSE first
                 /\ runs' = IF faults = <<>>
                            THEN [runs EXCEPT ![self] = @ + 1] ELSE runs
            ELSE /\ Catch(f, "g_except")
                 /\ UNCHANGED <<first, runs>>
    /\ UNCHANGED <<objs, handlers, self, stdout, calls>>

\* except Exception as e: logger.error(...), return json.dumps({'error': ...})
G_Except ==
    /\ At(GENERATE, "g_except")
    /\ \E f \in LogFault :
         /\ faults' = Logged("generate.except", f)
         /\ IF f = NoExc
            THEN /\ emitted' = Emit
                 /\ Return(GENERATE, Dumps(ReportError(exc)))
            ELSE /\ emitted' = emitted
                 /\ Raise(GENERATE, f)
    /\ UNCHANGED <<objs, handlers, self, stdout, events, first, runs, calls>>

\* ------------------------------------------------------------------- main
\* the two banner lines are printed and the try block is entered
StartMain ==
    /\ Idle /\ calls < MaxCalls
    /\ calls' = calls + 1
    /\ stack' = <<Frame(MAIN, "m_init")>>
    /\ stdout' = <<"banner", "rule">>
    /\ self' = 0
    /\ loc' = InitLoc
    /\ exc' = NoExc
    /\ ret' = None
    /\ done' = NoDone
    /\ events' = <<>>
    /\ faults' = <<>>
    /\ emitted' = 0
    /\ UNCHANGED <<objs, handlers, first, runs>>

\* automation = ClaudeAutomationBugfix(issue_number=5)
M_Init ==
    /\ At(MAIN, "m_init")
    /\ \E f \in ClockFault, t \in Clock :
         /\ faults' = Logged("init", f)
         /\ IF f = NoExc
            THEN /\ objs' = Append(objs, NewObj(IntIssue("5"), t))
                 /\ handlers' = setup_logging(LoggerName(IntIssue("5")))
                 /\ self' = Len(objs) + 1
                 /\ stack' = Goto("m_report")
                 /\ exc' = exc
            ELSE /\ UNCHANGED <<objs, handlers, self>>
                 /\ stack' = Goto("m_except")
                 /\ exc' = f
    /\ UNCHANGED <<loc, ret, done, emitted, stdout, events, first, runs, calls>>

\* report = automation.generate_automation_report(): the call
M_Report ==
    /\ At(MAIN, "m_report")
    /\ stack' = Push("m_print", GENERATE)
    /\ UNCHANGED <<objs, handlers, self, loc, exc, ret, done, emitted, stdout,
                   events, faults, first, runs, calls>>

\* mutant: the handler of main returns 0 as well
ExitCodeZero(escaped) == 0

\* main's return value
ExitCode(escaped) == IF escaped THEN 1 ELSE 0

\* the call returned: the report and the completion lines are printed
M_Print ==
    /\ At(MAIN, "m_print")
    /\ IF exc # NoExc
       THEN /\ stack' = Goto("m_except")
            /\ UNCHANGED <<loc, stdout, exc, ret, done>>
       ELSE /\ stdout' = stdout \o <<"report:", "completed", "ready">>
            /\ Return(MAIN, [exit_code |-> ExitCode(FALSE), printed |-> ret])
    /\ UNCHANGED <<objs, handlers, self, emitted, events, faults, first, runs, calls>>

\* except Exception as e: the failure line is printed
M_Except ==
    /\ At(MAIN, "m_except")
    /\ stdout' = stdout \o <<"failed:", exc.text>>
    /\ Return(MAIN, [exit_code |-> ExitCode(TRUE), printed |-> None])
    /\ UNCHANGED <<objs, handlers, self, emitted, events, faults, first, runs, calls>>

\* -------------------------------------------------------- specification
Next ==
    \/ \E issue_number \in Issues : New(issue_number)
    \/ \E op \in PublicOps, n \in 1..MaxCalls : Call(op, n)
    \/ V_Checks \/ V_Info \/ V_Except
    \/ I_Start \/ I_Info \/ I_Step \/ I_StepInfo \/ I_End \/ I_Done \/ I_Except
    \/ G_Validate \/ G_Implement \/ G_Assemble \/ G_Dumps \/ G_Except
    \/ StartMain \/ M_Init \/ M_Report \/ M_Print \/ M_Except

Spec == Init /\ [][Next]_vars

\* ------------------------------------------------------ claim vocabulary
Range(q) == {q[k] : k \in DOMAIN q}

IsPrefix(p, q) == Len(p) <= Len(q) /\ \A k \in 1..Len(p) : p[k] = q[k]

StepKeys == {"step_1", "step_2", "step_3", "step_4"}

FaultSites == {faults[k].site : k \in DOMAIN faults}

\* the sites inside implement_enhanced_automation
ImplSites ==
    StepKeys \cup {"implement.start", "implement.try", "implement.except"}

InImpl(x) == x.site \in ImplSites

ImplFaults == SelectSeq(faults, InImpl)

\* the faults that reach the handler of generate_automation_report
ReachGenerate ==
    {"validate.except", "implement.start", "implement.except", "generate.try"}

Returned(op) == done.op = op /\ done.how = "return"

ReportKeys ==
    {"issue_number", "report_timestamp", "prerequisites", "implementation",
     "automation_type", "expected_performance"}

HasSchema(text) ==
    /\ DOMAIN text.doc = {"claude_automation_report"}
    /\ ReportKeys \subseteq DOMAIN text.doc.claude_automation_report

FullOrder ==
    <<"prerequisites-check", "step_1", "step_2", "step_3", "step_4",
      "assemble", "serialize">>

Rank(e) == CHOOSE k \in DOMAIN FullOrder : FullOrder[k] = e

\* the events on record are those of a run of generate_automation_report
InReportRun == events # <<>> /\ events[1] = "prerequisites-check"

\* ------------------------------------------------------------------ C1
\* C1: when no step raises (no fault is injected into the operation),
\* implement_enhanced_automation returns status "success", steps_completed
\* = 4 and results with exactly the entries step_1..step_4, step_i being the
\* output of the i-th step in the fixed order, each with status "completed";
\* and it returns status "success" in no other call.
C1_SuccessShape ==
    /\ done.op = IMPLEMENT =>
          ((done.how = "return" /\ ret.status = "success") <=> ImplFaults = <<>>)
    /\ (done.op = IMPLEMENT /\ ImplFaults = <<>>) =>
        /\ done.how = "return"
        /\ ret.status = "success"
        /\ ret.steps_completed = 4
        /\ DOMAIN ret.results = {"step_1", "step_2", "step_3", "step_4"}
        /\ ret.results["step_1"] = detect_implementation_type
        /\ ret.results["step_2"] = generate_code_solution
        /\ ret.results["step_3"] = validate_security_checks
        /\ ret.results["step_4"] = prepare_review_data
        /\ \A k \in DOMAIN ret.results : ret.results[k].status = "completed"
        /\ Cardinality(Range(events) \cap StepKeys) = ret.steps_completed

C1_Witness ==
    /\ Returned(IMPLEMENT) /\ ImplFaults = <<>>
    /\ ret.status = "success"

\* ------------------------------------------------------------------ C2
\* the only fault of the call is the exception a step raised
OnlyStepFault == Len(ImplFaults) = 1 /\ ImplFaults[1].site \in StepKeys

\* C2 as stated: for every k and every exception raised by step k,
\* implement_enhanced_automation does not raise and returns status "error"
\* with an error_message that is the exception's text and is non-empty.
C2_Original ==
    (done.op = IMPLEMENT /\ OnlyStepFault) =>
        /\ done.how = "return"
        /\ ret.status = "error"
        /\ ret.error_message = ImplFaults[1].text
        /\ ret.error_message # ""

\* C2 as amended: for every k and every exception raised by step k,
\* implement_enhanced_automation does not raise and returns status "error"
\* with an error_message equal to the exception's text, which is empty when
\* the exception carries no text; no step after k is executed.
C2_ErrorShape ==
    (done.op = IMPLEMENT /\ OnlyStepFault) =>
        /\ done.how = "return"
        /\ ret.status = "error"
        /\ DOMAIN ret = {"status", "issue_number", "error_message", "timestamp"}
        /\ ret.error_message = ImplFaults[1].text
        /\ ret.error_message \in ExcTexts
        /\ \A j \in 1..4 : StepKey(j) \in Range(events) <=>
                              Rank(StepKey(j)) <= Rank(ImplFaults[1].site)

C2_Witness ==
    /\ Returned(IMPLEMENT) /\ OnlyStepFault
    /\ ImplFaults[1].site = "step_2"
    /\ ret.error_message = ""

\* ------------------------------------------------------------------ C3
\* C3: no public operation ever lets an exception escape, whatever fault
\* occurs inside it.
C3_NoEscape == ~(done.op \in PublicOps /\ done.how = "raise")

\* ------------------------------------------------------------------ C4
\* C4: main returns 1 exactly when an exception escapes construction or
\* generate_automation_report and 0 in every other run; when a step's
\* exception is the run's fault, main returns 0 and prints the completion
\* lines although the printed report's implementation status is "error".
C4_ExitCode ==
    done.op = MAIN =>
        /\ done.how = "return"
        /\ ret.exit_code \in {0, 1}
        /\ ret.exit_code = 1 <=>
              ("init" \in FaultSites \/ "generate.except" \in FaultSites)
        /\ ret.exit_code = 1 <=> "failed:" \in Range(stdout)
        /\ ret.exit_code = 0 <=> "completed" \in Range(stdout)
        /\ (Len(faults) = 1 /\ faults[1].site \in StepKeys) =>
              /\ ret.exit_code = 0
              /\ HasSchema(ret.printed)
              /\ ret.printed.doc.claude_automation_report
                    .implementation.status = "error"

C4_Witness ==
    /\ Returned(MAIN)
    /\ Len(faults) = 1 /\ faults[1].site = "step_2"
    /\ ret.exit_code = 0
    /\ "completed" \in Range(stdout)

\* the other side of C4: an exception that escaped generate_automation_report
C4_EscapeReached ==
    /\ Returned(MAIN) /\ "generate.except" \in FaultSites
    /\ ret.exit_code = 1

\* ------------------------------------------------------------------ C5
\* C5 as stated: in every run of generate_automation_report the events
\* occur in the one order prerequisites-check, step 1..4, assemble,
\* serialize, with no step skipped, repeated or reordered, so the report is
\* never assembled before all four steps have executed.
C5_Original ==
    InReportRun =>
        /\ IsPrefix(events, FullOrder)
        /\ "assemble" \in Range(events) => StepKeys \subseteq Range(events)

\* C5 as amended: the events of a run occur in that order with none
\* repeated or reordered, the steps executed are step 1..j for some j, and
\* a run with no fault goes through all seven; a step is skipped only after
\* a fault inside implement_enhanced_automation, and then the report is
\* still assembled; all four steps have executed before the report is
\* assembled in every run whose implementation status is "success".
C5_Order ==
    InReportRun =>
        /\ \A a, b \in DOMAIN events :
              a < b => Rank(events[a]) < Rank(events[b])
        /\ \A j \in 2..4 : StepKey(j) \in Range(events) =>
                              StepKey(j - 1) \in Range(events)
        /\ faults = <<>> => IsPrefix(events, FullOrder)
        /\ "serialize" \in Range(events) => "assemble" \in Range(events)
        /\ "assemble" \in Range(events) =>
              /\ ImplFaults = <<>> => StepKeys \subseteq Range(events)
              /\ At(GENERATE, "g_dumps") =>
                    (loc.implementation.status = "success" <=>
                        /\ StepKeys \subseteq Range(events)
                        /\ ImplFaults = <<>>)

C5_Witness ==
    /\ Returned(GENERATE)
    /\ events = <<"prerequisites-check", "step_1", "step_2", "assemble",
                  "serialize">>
    /\ HasSchema(ret)

\* ------------------------------------------------------------------ C6
\* C6 as stated: in all runs, faulty ones included, the string returned by
\* generate_automation_report has the key claude_automation_report holding
\* all six keys of the schema.
C6_Original == Returned(GENERATE) => HasSchema(ret)

\* C6 as amended: the returned string has the key claude_automation_report
\* holding all six keys in every run in which no exception reaches the
\* handler of generate_automation_report (a fault that one of the nested
\* operations catches included); when a nested operation raises or the
\* serialization faults, the string holds the single key error instead.
C6_Schema ==
    Returned(GENERATE) =>
        IF FaultSites \cap ReachGenerate = {}
        THEN /\ HasSchema(ret)
             /\ ret.format = "json" /\ ret.indent = 2
             /\ ret.doc.claude_automation_report.automation_type
                   = "enhanced_instant_review"
        ELSE /\ DOMAIN ret.doc = {"error"}
             /\ ret.doc.error = faults[Len(faults)].text

C6_Witness ==
    /\ Returned(GENERATE)
    /\ FaultSites = {"validate.try", "step_3"}
    /\ HasSchema(ret)

\* the other side of C6: the single-key error text
C6_ErrorReached ==
    /\ Returned(GENERATE) /\ "generate.try" \in FaultSites
    /\ DOMAIN ret.doc = {"error"}

\* ------------------------------------------------------------------ C7
\* C7: two calls of generate_automation_report on one instance yield
\* reports identical in every field but the timestamp and timing fields:
\* whatever ran on the instance before, a fault-free run's report equals,
\* timing masked, the instance's first fault-free report.
C7_Idempotent ==
    (Returned(GENERATE) /\ faults = <<>>) =>
        /\ first[self] # None
        /\ StripTiming(ret) = first[self]
        /\ ret.doc.claude_automation_report.implementation.status = "success"
        /\ ret.doc.claude_automation_report.implementation.steps_completed = 4

C7_Witness ==
    /\ Returned(GENERATE) /\ faults = <<>>
    /\ runs[self] >= 2
    /\ StripTiming(ret) = first[self]

\* ------------------------------------------------------------------ C8
\* C8: the context is never mutated after construction: no operation, the
\* construction of another instance included, changes an existing
\* instance's issue_number, timestamp, or logger and the logger's handlers
\* (hence the number of copies of each log line).
C8_Frame ==
    [][\A n \in 1..Len(objs) :
          /\ objs'[n] = objs[n]
          /\ handlers'[objs[n].logger.name] = handlers[objs[n].logger.name]
      ]_vars

\* ------------------------------------------------------------------ C9
\* C9: in every successful run execution_time_seconds is the end reading
\* minus the start reading and is >= 0, for every pair of readings.
C9_Elapsed ==
    At(IMPLEMENT, "i_done") =>
        /\ loc.final_result.execution_time_seconds
              = loc.end_time - loc.start_time
        /\ loc.final_result.execution_time_seconds >= 0

\* ----------------------------------------------------------------- C10
\* C10: the prerequisites check never gates the pipeline: whatever
\* validate_automation_prerequisites returned (a mapping with a false
\* check or the error-flagged mapping included), the four steps run, the
\* implementation status is "success" when nothing faults inside
\* implement_enhanced_automation, and the result is only copied into the
\* report.
C10_NoGate ==
    (Returned(GENERATE) /\ FaultSites \subseteq {"validate.try"}) =>
        LET r == ret.doc.claude_automation_report IN
        /\ HasSchema(ret)
        /\ StepKeys \subseteq Range(events)
        /\ r.implementation.status = "success"
        /\ r.implementation.steps_completed = 4
        /\ IF faults = <<>>
           THEN /\ r.prerequisites = Checks
                /\ r.prerequisites.issue_number_valid
                      = (r.issue_number.type = "int")
           ELSE r.prerequisites = [error |-> TRUE, message |-> faults[1].text]

C10_Witness ==
    /\ Returned(GENERATE)
    /\ HasSchema(ret)
    /\ ret.doc.claude_automation_report.prerequisites
          = [error |-> TRUE, message |-> "check"]
    /\ ret.doc.claude_automation_report.implementation.status = "success"

\* the other case of C10: a false check
C10_FalseCheckReached ==
    /\ Returned(GENERATE)
    /\ faults = <<>>
    /\ ~ ret.doc.claude_automation_report.prerequisites.issue_number_valid
    /\ ret.doc.claude_automation_report.implementation.status = "success"

====
